---- MODULE Spec2Model ----
(***************************************************************************)
(* Model of build/android/run_tests.py: Dispatch, _RunATestSuite,          *)
(* RunTests and TestSharder.  One behaviour is one invocation of           *)
(* Dispatch(options).  The collaborators that are imported but are not     *)
(* part of run_tests.py (emulator.Emulator, android_commands,              *)
(* SingleTestRunner, TestResults, BaseTestSharder) are modelled by what    *)
(* the orchestration observes of them: the devices they report, the        *)
(* results they produce, the errors they raise, the disabled list they     *)
(* rewrite.                                                                *)
(*                                                                         *)
(* Spec is Dispatch on options with --repeat >= 0; SpecBudget is Dispatch  *)
(* on any integer --repeat; SpecMerge is the merge of the runners' partial *)
(* results taken by itself.                                                *)
(***************************************************************************)
EXTENDS Integers, Sequences, FiniteSets, TLC

\* ------------------------------------------------------------------ bounds
MaxSuites == 2      \* length of the suite catalog (_TEST_SUITES holds 8 names)
MaxTests == 3       \* longest test list GetAllTests() reports
MaxDevices == 2     \* most devices GetAttachedDevices() reports
MaxEmulators == 2   \* largest --emulator N
MaxRepeat == 2      \* largest --repeat N
MaxOverdraw == 3    \* how far below zero options.repeat is followed

\* option_parser default of --repeat
DefaultRepeat == 2

\* ------------------------------------------------------------- vocabulary
None == << >>                  \* options.test_suite not given
Help == <<"help">>             \* the literal suite name that lists the suites
Suite(i) == <<"suite", i>>     \* the path of the i-th suite of the catalog
Suites == {Suite(i) : i \in 1..MaxSuites}
Test(i) == <<"test", i>>       \* the name of the i-th test of a suite
Tests == {Test(i) : i \in 1..MaxTests}
Star == <<"*">>                \* the glob pattern "*" of a disabled list
NoFilter == << >>       \* gtest_filter not given (None or '')

Min(a, b) == IF a < b THEN a ELSE b
Max(a, b) == IF a > b THEN a ELSE b
Range(s) == {s[i] : i \in 1..Len(s)}
TestList(n) == [i \in 1..n |-> Test(i)]

VARIABLES
  options,              \* the options object Dispatch and _RunATestSuite share
  all_test_suites,      \* Dispatch: the list the for loop walks
  idx,                  \* Dispatch: position of the for loop (1-based)
  failures,             \* Dispatch: failures
  pc,                   \* where control is
  attached_devices,     \* _RunATestSuite: attached_devices
  buildbot_emulators,   \* _RunATestSuite: buildbot_emulators
  test_results,         \* _RunATestSuite: test_results of this attempt
  running,              \* emulator processes that are up (launched, not shut down)
  disabled,             \* per suite: the patterns in its <suite>_disabled file
  \* history (not read by any action's guard or effect on program state)
  disabled0,            \* the disabled lists before Dispatch
  repeat_given,         \* options.repeat as Dispatch received it
  log,                  \* the attempts of the current suite, oldest first
  repeat0,              \* options.repeat when the current suite started
  fal0,                 \* options.fast_and_loose when the current suite started
  earlier_failed,       \* an attempt of the current suite that was repeated
                        \* had failed tests
  path,                 \* which branch of _RunATestSuite this attempt took
  shard_input,          \* TestSharder.tests of this attempt
  shards,               \* shard_test_list per device index of this attempt
  ran_on,               \* device indexes (0-based) whose runner ran in this attempt
  wrote,                \* device indexes whose runner called UpdateFilter, one
                        \* entry per call of this attempt
  suite_path,           \* whether the suite's path was on disk in this attempt
  sharder_all_tests,    \* TestSharder.__init__: all_tests of this attempt
  writes,               \* per suite: the number of UpdateFilter calls so far
  finals,               \* per finished suite: how its call returned
  nodev_seen,           \* some earlier call found no device
  attempts,             \* entries of _RunATestSuite so far, all suites
  reruns,               \* of these, the entries from line 355
  \* the merge of partial results, taken by itself
  m_pool,               \* the partial TestResults not merged yet
  m_whole,              \* the TestResults of one run over the same tests
  m_pad                 \* an empty TestResults has been put in the pool

vars == << options, all_test_suites, idx, failures, pc, attached_devices,
           buildbot_emulators, test_results, running, disabled, disabled0,
           repeat_given, log, repeat0, fal0, earlier_failed, path,
           shard_input, shards, ran_on, wrote, suite_path, sharder_all_tests,
           writes, finals, nodev_seen, attempts, reruns, m_pool, m_whole,
           m_pad >>

\* ------------------------------------------------- collaborators' values
\* A TestResults object: three disjoint sets of tests and two flags.
EmptyResults ==
  [ok |-> {}, failed |-> {}, crashed |-> {}, timed_out |-> FALSE,
   overall_fail |-> FALSE]

\* What SingleTestRunner.Run() can leave in test_results for the tests it ran:
\* every test in exactly one set, the two flags free.
RunnerResults(S) ==
  {r \in [ok : SUBSET S, failed : SUBSET S, crashed : SUBSET S,
          timed_out : BOOLEAN, overall_fail : BOOLEAN] :
     /\ r.ok \cup r.failed \cup r.crashed = S
     /\ r.ok \cap r.failed = {}
     /\ r.ok \cap r.crashed = {}
     /\ r.failed \cap r.crashed = {}}

\* Variant: the flags of the later partial result replace the earlier ones.
Merge_LastFlagsWin(a, b) ==
  [ok |-> a.ok \cup b.ok, failed |-> a.failed \cup b.failed,
   crashed |-> a.crashed \cup b.crashed,
   timed_out |-> b.timed_out, overall_fail |-> b.overall_fail]

\* TestResults.FromTestResults: the union of the sets, the OR of the flags.
Merge(a, b) ==
  [ok |-> a.ok \cup b.ok, failed |-> a.failed \cup b.failed,
   crashed |-> a.crashed \cup b.crashed,
   timed_out |-> a.timed_out \/ b.timed_out,
   overall_fail |-> a.overall_fail \/ b.overall_fail]

\* TestResults.FromOkAndFailed([], [BaseTestResult(test_suite, '')], False, False)
\* the synthetic record is named after the suite, not after a test.
SyntheticFailure(suite) ==
  [ok |-> {}, failed |-> {suite}, crashed |-> {},
   timed_out |-> FALSE, overall_fail |-> FALSE]

\* fnmatch.fnmatch(t, disabled_pattern)
fnmatch(t, p) == p = Star \/ p = t

\* android_commands.GetAttachedDevices(): serials of the attached devices
PhysicalDevices(k) == [i \in 1..k |-> <<"device", i>>]
\* emulator.Emulator(...).device
EmulatorDevice(n) == <<"emulator", n>>

\* --------------------------------------------------------- pure functions
\* FullyQualifiedTestSuites(apk): one path per catalog entry, catalog order.
FullyQualifiedTestSuites == [i \in 1..MaxSuites |-> Suite(i)]

\* Python's s[a:b] for 0 <= a, 0 <= b (0-based, end exclusive, clamped).
PySlice(s, a, b) ==
  LET lo == Min(a, Len(s))
      hi == Max(lo, Min(b, Len(s)))
  IN  [j \in 1..(hi - lo) |-> s[lo + j]]

\* Variant: the disabled list is never applied.
SharderTests_NeverFiltered(all_tests, rebaseline, disabled_list) == all_tests

\* TestSharder.__init__: self.tests
SharderTests(all_tests, rebaseline, disabled_list) ==
  IF ~rebaseline
    THEN SelectSeq(all_tests,
                   LAMBDA t : ~(\E p \in disabled_list : fnmatch(t, p)))
    ELSE all_tests

\* Variant: the shard size rounded up instead of down.
ShardTestList_RoundedUp(tests, ndevices, index) ==
  LET shard_size == (Len(tests) + ndevices - 1) \div ndevices
  IN  PySlice(tests, index * shard_size, (index + 1) * shard_size)

\* TestSharder.CreateShardedTestRunner: shard_test_list of device `index`
\* (0-based) among ndevices devices.
ShardTestList(tests, ndevices, index) ==
  LET shard_size == Len(tests) \div ndevices
  IN  PySlice(tests, index * shard_size, (index + 1) * shard_size)

\* The shard lists of all devices, in device-index order.
AllShards(tests, ndevices) ==
  [i \in 1..ndevices |-> ShardTestList(tests, ndevices, i - 1)]

\* Variant: the performance_test flag is not looked at.
UseSharder_IgnoresPerformance(opts, devices) ==
  /\ Len(devices) > 1
  /\ opts.test_suite # None
  /\ opts.gtest_filter = NoFilter

\* _RunATestSuite's test of whether to shard.
UseSharder(opts, devices) ==
  /\ Len(devices) > 1
  /\ opts.test_suite # None
  /\ opts.gtest_filter = NoFilter
  /\ ~opts.performance_test

\* Variant: every runner of the sharder updates the filter.
SharderWriters_EveryRunner(results, rebaseline, ndevices) ==
  IF results.failed # {} /\ rebaseline
    THEN [i \in 1..ndevices |-> i - 1] ELSE << >>

\* Variant: the filter is updated also when no test failed.
SharderWriters_AlsoWhenNoneFailed(results, rebaseline, ndevices) ==
  IF rebaseline THEN << 0 >> ELSE << >>

\* TestSharder.OnTestsCompleted: the indexes of the runners whose
\* UpdateFilter is called, one entry per call: test_runners[0], when tests
\* failed and rebaselining.
SharderWriters(results, rebaseline, ndevices) ==
  IF results.failed # {} /\ rebaseline THEN << 0 >> ELSE << >>

\* Variant: the filter is updated whether rebaselining or not.
RunTestsWriters_Always(rebaseline) == << 0 >>

\* RunTests: the same for its one runner `test` (index 0), whose
\* UpdateFilter is called after test.Run() when rebaselining.
RunTestsWriters(rebaseline) ==
  IF rebaseline THEN << 0 >> ELSE << >>

\* Variant: the last repeat is never taken.
RepeatAgain_OneShort(results, repeat) == results.timed_out /\ repeat > 1

\* _RunATestSuite: the test that decides on another attempt.
RepeatAgain(results, repeat) == results.timed_out /\ repeat # 0

\* Variant: crashed tests are counted as failures too.
ReturnValue_CountsCrashed(results) ==
  Cardinality(results.failed \cup results.crashed)

\* _RunATestSuite: the return value of an attempt that ran.
ReturnValue(results) == Cardinality(results.failed)

\* _RunATestSuite: where control goes after attached_devices = [] and
\* buildbot_emulators = [].
Entry(opts) == IF opts.use_emulator # 0 THEN "launch" ELSE "enumerate"

\* BaseTestSharder.RunShardedTests: the merged results over the shards, each
\* shard's runner producing any results for exactly its shard.
RECURSIVE ShardedResults(_)
ShardedResults(sh) ==
  IF sh = << >> THEN {EmptyResults}
  ELSE {Merge(r, m) : r \in RunnerResults(Range(Head(sh))),
                      m \in ShardedResults(Tail(sh))}

\* The tests the one runner of RunTests runs: those of the filter when one
\* is given, otherwise all tests but the disabled ones (all of them when
\* rebaselining).
SingleRunnerTests(all_tests, gtest_filter, rebaseline, disabled_list) ==
  IF gtest_filter # NoFilter
    THEN Range(all_tests) \cap Range(gtest_filter)
    ELSE Range(SharderTests(all_tests, rebaseline, disabled_list))

\* ------------------------------------------------------------------ state
\* The disabled lists a suite may have on disk before the run.
DisabledChoices == {{}, {Test(1)}, {Star}}

\* The gtest filters -f may give: none, or one naming the first test.
FilterChoices == {NoFilter, <<Test(1)>>}

Init ==
  /\ options \in [test_suite : {None, Help, Suite(1)},
                  gtest_filter : FilterChoices,
                  rebaseline : BOOLEAN,
                  performance_test : BOOLEAN,
                  use_emulator : 0..MaxEmulators,
                  fast_and_loose : BOOLEAN,
                  repeat : 0..MaxRepeat]
  /\ all_test_suites = << >>
  /\ idx = 1
  /\ failures = 0
  /\ pc = "start"
  /\ attached_devices = << >>
  /\ buildbot_emulators = << >>
  /\ test_results = EmptyResults
  /\ running = {}
  /\ \E d \in DisabledChoices : disabled = [s \in Suites |-> d]
  /\ disabled0 = disabled
  /\ repeat_given = options.repeat
  /\ log = << >>
  /\ repeat0 = options.repeat
  /\ fal0 = options.fast_and_loose
  /\ earlier_failed = FALSE
  /\ path = "none"
  /\ shard_input = << >>
  /\ shards = << >>
  /\ ran_on = {}
  /\ wrote = << >>
  /\ suite_path = "unchecked"
  /\ sharder_all_tests = << >>
  /\ writes = [s \in Suites |-> 0]
  /\ finals = << >>
  /\ nodev_seen = FALSE
  /\ attempts = 0
  /\ reruns = 0
  /\ m_pool = << >>
  /\ m_whole = EmptyResults
  /\ m_pad = FALSE

program == << options, all_test_suites, idx, failures, pc, attached_devices,
              buildbot_emulators, test_results, running, disabled >>
attempt_hist == << path, shard_input, shards, ran_on, wrote, suite_path,
                   sharder_all_tests >>
\* What no step of Dispatch changes.
fixed == << disabled0, repeat_given, m_pool, m_whole, m_pad >>

\* What an attempt's log entry says of its end.
Outcome(results) == IF results.timed_out THEN "timed_out" ELSE "finished"

\* The history of a fresh attempt.
FreshAttempt ==
  /\ path' = "none"
  /\ shard_input' = << >>
  /\ shards' = << >>
  /\ ran_on' = {}
  /\ wrote' = << >>
  /\ suite_path' = "unchecked"
  /\ sharder_all_tests' = << >>

\* ---------------------------------------------------------------- Dispatch
\* Dispatch, `-s help`: ListTestSuites() and return 0.
ListTestSuites ==
  /\ pc = "start"
  /\ options.test_suite = Help
  /\ pc' = "done"
  /\ UNCHANGED << options, all_test_suites, idx, failures, attached_devices,
                  buildbot_emulators, test_results, running, disabled, fixed,
                  attempts, reruns, log, repeat0, fal0, earlier_failed,
                  attempt_hist, writes, finals, nodev_seen >>

\* Dispatch: all_test_suites and failures = 0.
DispatchStart ==
  /\ pc = "start"
  /\ options.test_suite # Help
  /\ all_test_suites' = IF options.test_suite # None
                          THEN << options.test_suite >>
                          ELSE FullyQualifiedTestSuites
  /\ failures' = 0
  /\ idx' = 1
  /\ pc' = "dispatch"
  /\ UNCHANGED << options, attached_devices, buildbot_emulators, test_results,
                  running, disabled, fixed, attempts, reruns, log, repeat0,
                  fal0, earlier_failed, attempt_hist, writes, finals,
                  nodev_seen >>

\* Variant: every suite starts with the repeats Dispatch was given.
DispatchNext_RestoresRepeat ==
  /\ pc = "dispatch"
  /\ idx <= Len(all_test_suites)
  /\ options' = [options EXCEPT !.test_suite = all_test_suites[idx],
                              !.repeat = repeat_given]
  /\ attached_devices' = << >>
  /\ buildbot_emulators' = << >>
  /\ test_results' = EmptyResults
  /\ pc' = Entry(options')
  /\ log' = << >>
  /\ repeat0' = options.repeat
  /\ fal0' = options.fast_and_loose
  /\ earlier_failed' = FALSE
  /\ FreshAttempt
  /\ attempts' = attempts + 1
  /\ UNCHANGED reruns
  /\ UNCHANGED << all_test_suites, idx, failures, running, disabled, fixed,
                  writes, finals, nodev_seen >>

\* Variant: every suite starts with fast_and_loose off.
DispatchNext_ResetsFast ==
  /\ pc = "dispatch"
  /\ idx <= Len(all_test_suites)
  /\ options' = [options EXCEPT !.test_suite = all_test_suites[idx],
                              !.fast_and_loose = FALSE]
  /\ attached_devices' = << >>
  /\ buildbot_emulators' = << >>
  /\ test_results' = EmptyResults
  /\ pc' = Entry(options')
  /\ log' = << >>
  /\ repeat0' = options.repeat
  /\ fal0' = options.fast_and_loose
  /\ earlier_failed' = FALSE
  /\ FreshAttempt
  /\ attempts' = attempts + 1
  /\ UNCHANGED reruns
  /\ UNCHANGED << all_test_suites, idx, failures, running, disabled, fixed,
                  writes, finals, nodev_seen >>

\* Dispatch: one turn of the for loop up to the entry of _RunATestSuite.
DispatchNext ==
  /\ pc = "dispatch"
  /\ idx <= Len(all_test_suites)
  /\ options' = [options EXCEPT !.test_suite = all_test_suites[idx]]
  /\ attached_devices' = << >>
  /\ buildbot_emulators' = << >>
  /\ test_results' = EmptyResults
  /\ pc' = Entry(options')
  /\ log' = << >>
  /\ repeat0' = options.repeat
  /\ fal0' = options.fast_and_loose
  /\ earlier_failed' = FALSE
  /\ FreshAttempt
  /\ attempts' = attempts + 1
  /\ UNCHANGED reruns
  /\ UNCHANGED << all_test_suites, idx, failures, running, disabled, fixed,
                  writes, finals, nodev_seen >>

\* Dispatch: the loop is over; return failures.
DispatchReturn ==
  /\ pc = "dispatch"
  /\ idx > Len(all_test_suites)
  /\ pc' = "done"
  /\ UNCHANGED << options, all_test_suites, idx, failures, attached_devices,
                  buildbot_emulators, test_results, running, disabled, fixed,
                  attempts, reruns, log, repeat0, fal0, earlier_failed,
                  attempt_hist, writes, finals, nodev_seen >>

\* ---------------------------------------------------------- _RunATestSuite
\* Variant: every launch kills the emulators that are up.
Launch_KillsEveryTime ==
  /\ pc = "launch"
  /\ LET n == Len(buildbot_emulators) IN
       /\ n < options.use_emulator
       /\ running' = {n}
       /\ buildbot_emulators' =
            Append(buildbot_emulators,
                   [n |-> n, fast_and_loose |-> options.fast_and_loose,
                    kill_all_emulators |-> TRUE, confirmed |-> FALSE])
       /\ attached_devices' = Append(attached_devices, EmulatorDevice(n))
       /\ pc' = IF n + 1 = options.use_emulator THEN "confirm" ELSE "launch"
  /\ UNCHANGED << options, all_test_suites, idx, failures, test_results,
                  disabled, fixed, attempts, reruns, log, repeat0, fal0,
                  earlier_failed, attempt_hist, writes, finals, nodev_seen >>

\* One turn of the launch loop: Emulator(options.fast_and_loose).Launch(n == 0).
Launch ==
  /\ pc = "launch"
  /\ LET n == Len(buildbot_emulators) IN
       /\ n < options.use_emulator
       /\ running' = (IF n = 0 THEN {} ELSE running) \cup {n}
       /\ buildbot_emulators' =
            Append(buildbot_emulators,
                   [n |-> n, fast_and_loose |-> options.fast_and_loose,
                    kill_all_emulators |-> (n = 0), confirmed |-> FALSE])
       /\ attached_devices' = Append(attached_devices, EmulatorDevice(n))
       /\ pc' = IF n + 1 = options.use_emulator THEN "confirm" ELSE "launch"
  /\ UNCHANGED << options, all_test_suites, idx, failures, test_results,
                  disabled, fixed, attempts, reruns, log, repeat0, fal0,
                  earlier_failed, attempt_hist, writes, finals, nodev_seen >>

\* Launch() raises: the error leaves _RunATestSuite and Dispatch.
LaunchRaises ==
  /\ pc = "launch"
  /\ pc' = "raised"
  /\ UNCHANGED << options, all_test_suites, idx, failures, attached_devices,
                  buildbot_emulators, test_results, running, disabled, fixed,
                  attempts, reruns, log, repeat0, fal0, earlier_failed,
                  attempt_hist, writes, finals, nodev_seen >>

\* map(ConfirmLaunch, buildbot_emulators): every emulator is ready.
ConfirmLaunch ==
  /\ pc = "confirm"
  /\ buildbot_emulators' =
       [i \in 1..Len(buildbot_emulators) |->
          [buildbot_emulators[i] EXCEPT !.confirmed = TRUE]]
  /\ pc' = "check"
  /\ UNCHANGED << options, all_test_suites, idx, failures, attached_devices,
                  test_results, running, disabled, fixed, attempts, reruns,
                  log, repeat0, fal0, earlier_failed, attempt_hist, writes,
                  finals, nodev_seen >>

\* ConfirmLaunch() raises for an emulator that does not come up.
ConfirmLaunchRaises ==
  /\ pc = "confirm"
  /\ pc' = "raised"
  /\ UNCHANGED << options, all_test_suites, idx, failures, attached_devices,
                  buildbot_emulators, test_results, running, disabled, fixed,
                  attempts, reruns, log, repeat0, fal0, earlier_failed,
                  attempt_hist, writes, finals, nodev_seen >>

\* attached_devices = android_commands.GetAttachedDevices()
GetAttachedDevices ==
  /\ pc = "enumerate"
  /\ \E k \in 0..MaxDevices : attached_devices' = PhysicalDevices(k)
  /\ pc' = "check"
  /\ UNCHANGED << options, all_test_suites, idx, failures, buildbot_emulators,
                  test_results, running, disabled, fixed, attempts, reruns,
                  log, repeat0, fal0, earlier_failed, attempt_hist, writes,
                  finals, nodev_seen >>

\* Variant: no device ends Dispatch's loop at once.
NoDevice_Aborts ==
  /\ pc = "check"
  /\ attached_devices = << >>
  /\ failures' = failures + 1
  /\ pc' = "done"
  /\ log' = Append(log, [fal |-> options.fast_and_loose, outcome |-> "nodev"])
  /\ finals' = Append(finals, [nodev |-> TRUE, nfailed |-> 0])
  /\ nodev_seen' = TRUE
  /\ UNCHANGED << options, all_test_suites, idx, attached_devices,
                  buildbot_emulators, test_results, running, disabled, fixed,
                  attempts, reruns, repeat0, fal0, earlier_failed,
                  attempt_hist, writes >>

\* Variant: no device is handled like a timeout, by another attempt.
NoDevice_Repeats ==
  /\ pc = "check"
  /\ attached_devices = << >>
  /\ IF options.repeat # 0
       THEN /\ options' = [options EXCEPT !.fast_and_loose = TRUE,
                                          !.repeat = options.repeat - 1]
            /\ pc' = Entry(options')
            /\ UNCHANGED << failures, idx, finals, nodev_seen >>
       ELSE /\ failures' = failures + 1
            /\ idx' = idx + 1
            /\ pc' = "dispatch"
            /\ finals' = Append(finals, [nodev |-> TRUE, nfailed |-> 0])
            /\ nodev_seen' = TRUE
            /\ UNCHANGED options
  /\ log' = Append(log, [fal |-> options.fast_and_loose, outcome |-> "nodev"])
  /\ UNCHANGED << all_test_suites, attached_devices, buildbot_emulators,
                  test_results, running, disabled, fixed, attempts, reruns,
                  repeat0, fal0, earlier_failed, attempt_hist, writes >>

\* `if not attached_devices: return 1`, and Dispatch's failures += 1.
NoDevice ==
  /\ pc = "check"
  /\ attached_devices = << >>
  /\ failures' = failures + 1
  /\ idx' = idx + 1
  /\ pc' = "dispatch"
  /\ log' = Append(log, [fal |-> options.fast_and_loose, outcome |-> "nodev"])
  /\ finals' = Append(finals, [nodev |-> TRUE, nfailed |-> 0])
  /\ nodev_seen' = TRUE
  /\ UNCHANGED << options, all_test_suites, attached_devices,
                  buildbot_emulators, test_results, running, disabled, fixed,
                  attempts, reruns, repeat0, fal0, earlier_failed,
                  attempt_hist, writes >>

\* SingleTestRunner.UpdateFilter(failed): the suite's disabled file is
\* rewritten wholesale with the failed tests.
UpdateFilter(lists, suite, failed) == [lists EXCEPT ![suite] = failed]

\* The sharded branch: TestSharder(...), RunShardedTests(), OnTestsCompleted.
RunShardedTests ==
  /\ pc = "check"
  /\ attached_devices # << >>
  /\ UseSharder(options, attached_devices)
  /\ \E L \in 0..MaxTests :
       LET suite == options.test_suite
           tests == SharderTests(TestList(L), options.rebaseline,
                                 disabled[suite])
           sh == AllShards(tests, Len(attached_devices))
       IN  \E r \in ShardedResults(sh) :
             /\ test_results' = r
             /\ shard_input' = tests
             /\ sharder_all_tests' = TestList(L)
             /\ shards' = sh
             /\ ran_on' = 0..(Len(attached_devices) - 1)
             /\ LET w == SharderWriters(r, options.rebaseline,
                                         Len(attached_devices))
                IN  /\ disabled' = IF w # << >>
                                     THEN UpdateFilter(disabled, suite, r.failed)
                                     ELSE disabled
                    /\ writes' = [writes EXCEPT ![suite] = @ + Len(w)]
                    /\ wrote' = wrote \o w
             /\ log' = Append(log, [fal |-> options.fast_and_loose,
                                    outcome |-> Outcome(r)])
  /\ path' = "sharded"
  /\ suite_path' \in {"exists", "missing"}
  /\ pc' = "shutdown"
  /\ UNCHANGED << options, all_test_suites, idx, failures, attached_devices,
                  buildbot_emulators, running, fixed, attempts, reruns,
                  repeat0, fal0, earlier_failed, finals, nodev_seen >>

\* The other branch: RunTests(attached_devices[0], ...) for a suite that
\* exists (or is an .apk): one SingleTestRunner on that device.
RunTests ==
  /\ pc = "check"
  /\ attached_devices # << >>
  /\ ~UseSharder(options, attached_devices)
  /\ \E L \in 0..MaxTests :
       LET suite == options.test_suite
           ran == SingleRunnerTests(TestList(L), options.gtest_filter,
                                    options.rebaseline, disabled[suite])
       IN  \E r \in RunnerResults(ran) :
             /\ test_results' = Merge(EmptyResults, r)
             /\ LET w == RunTestsWriters(options.rebaseline)
                IN  /\ disabled' = IF w # << >>
                                     THEN UpdateFilter(disabled, suite, r.failed)
                                     ELSE disabled
                    /\ writes' = [writes EXCEPT ![suite] = @ + Len(w)]
                    /\ wrote' = wrote \o w
             /\ log' = Append(log, [fal |-> options.fast_and_loose,
                                    outcome |-> Outcome(r)])
  /\ path' = "single"
  /\ suite_path' = "exists"
  /\ ran_on' = {0}
  /\ pc' = "shutdown"
  /\ UNCHANGED << options, all_test_suites, idx, failures, attached_devices,
                  buildbot_emulators, running, fixed, attempts, reruns,
                  repeat0, fal0, earlier_failed, shard_input, shards,
                  sharder_all_tests, finals, nodev_seen >>

\* RunTests for a suite path that does not exist and is no .apk: the
\* synthetic failure is returned before any runner is made.
RunTestsUnrecognized ==
  /\ pc = "check"
  /\ attached_devices # << >>
  /\ ~UseSharder(options, attached_devices)
  /\ test_results' = SyntheticFailure(options.test_suite)
  /\ log' = Append(log, [fal |-> options.fast_and_loose,
                         outcome |-> "finished"])
  /\ path' = "unrecognized"
  /\ suite_path' = "missing"
  /\ pc' = "shutdown"
  /\ UNCHANGED << options, all_test_suites, idx, failures, attached_devices,
                  buildbot_emulators, running, disabled, fixed, attempts,
                  reruns, repeat0, fal0, earlier_failed, shard_input, shards,
                  ran_on, wrote, sharder_all_tests, writes, finals,
                  nodev_seen >>

\* The test run ends with an error (a runner or the sharder raises).
RunRaises ==
  /\ pc = "check"
  /\ attached_devices # << >>
  /\ pc' = "raised"
  /\ UNCHANGED << options, all_test_suites, idx, failures, attached_devices,
                  buildbot_emulators, test_results, running, disabled, fixed,
                  attempts, reruns, log, repeat0, fal0, earlier_failed,
                  attempt_hist, writes, finals, nodev_seen >>

\* for buildbot_emulator in buildbot_emulators: buildbot_emulator.Shutdown()
ShutdownAll == running \ {buildbot_emulators[i].n :
                            i \in 1..Len(buildbot_emulators)}

\* Variant: the next attempt is entered with the emulators still up.
Repeat_KeepsEmulators ==
  /\ pc = "shutdown"
  /\ running' = running
  /\ RepeatAgain(test_results, options.repeat)
  /\ options.repeat > -MaxOverdraw
  /\ options' = [options EXCEPT !.fast_and_loose = TRUE,
                                !.repeat = options.repeat - 1]
  /\ attached_devices' = << >>
  /\ buildbot_emulators' = << >>
  /\ test_results' = EmptyResults
  /\ pc' = Entry(options')
  /\ FreshAttempt
  /\ earlier_failed' = (earlier_failed \/ test_results.failed # {})
  /\ attempts' = attempts + 1
  /\ reruns' = reruns + 1
  /\ UNCHANGED << all_test_suites, idx, failures, disabled, fixed, log,
                  repeat0, fal0, writes, finals, nodev_seen >>

\* Variant: the failed tests of a repeated attempt are counted too.
Repeat_AddsFailures ==
  /\ pc = "shutdown"
  /\ running' = ShutdownAll
  /\ RepeatAgain(test_results, options.repeat)
  /\ options.repeat > -MaxOverdraw
  /\ options' = [options EXCEPT !.fast_and_loose = TRUE,
                                !.repeat = options.repeat - 1]
  /\ attached_devices' = << >>
  /\ buildbot_emulators' = << >>
  /\ test_results' = EmptyResults
  /\ pc' = Entry(options')
  /\ FreshAttempt
  /\ earlier_failed' = (earlier_failed \/ test_results.failed # {})
  /\ failures' = failures + ReturnValue(test_results)
  /\ attempts' = attempts + 1
  /\ reruns' = reruns + 1
  /\ UNCHANGED << all_test_suites, idx, disabled, fixed, log, repeat0, fal0,
                  writes, finals, nodev_seen >>

\* The end of an attempt that timed out with repeats left: the emulators
\* are shut down, fast_and_loose is set, one repeat is taken, and
\* `return _RunATestSuite(options)` enters the next attempt.
Repeat ==
  /\ pc = "shutdown"
  /\ running' = ShutdownAll
  /\ RepeatAgain(test_results, options.repeat)
  /\ options.repeat > -MaxOverdraw
  /\ options' = [options EXCEPT !.fast_and_loose = TRUE,
                                !.repeat = options.repeat - 1]
  /\ attached_devices' = << >>
  /\ buildbot_emulators' = << >>
  /\ test_results' = EmptyResults
  /\ pc' = Entry(options')
  /\ FreshAttempt
  /\ earlier_failed' = (earlier_failed \/ test_results.failed # {})
  /\ attempts' = attempts + 1
  /\ reruns' = reruns + 1
  /\ UNCHANGED << all_test_suites, idx, failures, disabled, fixed, log,
                  repeat0, fal0, writes, finals, nodev_seen >>

\* The end of any other attempt: the emulators are shut down,
\* `return len(test_results.failed)`, and Dispatch's failures += that.
Return ==
  /\ pc = "shutdown"
  /\ running' = ShutdownAll
  /\ ~RepeatAgain(test_results, options.repeat)
  /\ failures' = failures + ReturnValue(test_results)
  /\ idx' = idx + 1
  /\ pc' = "dispatch"
  /\ finals' = Append(finals, [nodev |-> FALSE,
                               nfailed |-> Cardinality(test_results.failed)])
  /\ attached_devices' = << >>
  /\ buildbot_emulators' = << >>
  /\ test_results' = EmptyResults
  /\ FreshAttempt
  /\ UNCHANGED << options, all_test_suites, disabled, fixed, attempts, reruns,
                  log, repeat0, fal0, earlier_failed, writes, nodev_seen >>

Next ==
  \/ ListTestSuites
  \/ DispatchStart
  \/ DispatchNext
  \/ DispatchReturn
  \/ Launch
  \/ LaunchRaises
  \/ ConfirmLaunch
  \/ ConfirmLaunchRaises
  \/ GetAttachedDevices
  \/ NoDevice
  \/ RunShardedTests
  \/ RunTests
  \/ RunTestsUnrecognized
  \/ RunRaises
  \/ Repeat
  \/ Return

Spec == Init /\ [][Next]_vars

\* ------------------------------------------- any integer for --repeat
\* Dispatch started with any integer --repeat (type='int', no check of its
\* sign), the other options at their defaults but for the suite and the
\* emulator count.
InitBudget ==
  /\ options \in [test_suite : {None, Help, Suite(1)},
                  gtest_filter : {NoFilter},
                  rebaseline : {FALSE},
                  performance_test : {FALSE},
                  use_emulator : {0, 1},
                  fast_and_loose : {FALSE},
                  repeat : (1 - MaxOverdraw)..MaxRepeat]
  /\ all_test_suites = << >>
  /\ idx = 1
  /\ failures = 0
  /\ pc = "start"
  /\ attached_devices = << >>
  /\ buildbot_emulators = << >>
  /\ test_results = EmptyResults
  /\ running = {}
  /\ disabled = [s \in Suites |-> {}]
  /\ disabled0 = disabled
  /\ repeat_given = options.repeat
  /\ log = << >>
  /\ repeat0 = options.repeat
  /\ fal0 = options.fast_and_loose
  /\ earlier_failed = FALSE
  /\ path = "none"
  /\ shard_input = << >>
  /\ shards = << >>
  /\ ran_on = {}
  /\ wrote = << >>
  /\ suite_path = "unchecked"
  /\ sharder_all_tests = << >>
  /\ writes = [s \in Suites |-> 0]
  /\ finals = << >>
  /\ nodev_seen = FALSE
  /\ attempts = 0
  /\ reruns = 0
  /\ m_pool = << >>
  /\ m_whole = EmptyResults
  /\ m_pad = FALSE

SpecBudget == InitBudget /\ [][Next]_vars

\* ------------------------------------------------- the merge by itself
\* The partial results of the runners are merged two at a time, in any
\* order and any grouping, as TestResults.FromTestResults may be applied
\* to them; Dispatch is not running.
dispatch_vars == << program, disabled0, repeat_given, log, repeat0, fal0,
                   earlier_failed, attempt_hist, writes, finals, nodev_seen,
                   attempts, reruns >>

\* The outcome of each test of a run: the set it is reported in.
Outcomes == {"ok", "failed", "crashed"}

\* The TestResults of a runner given the tests P: each test in the set of
\* its outcome, timed_out when one of its tests timed out, overall_fail
\* when one of its tests made the run fail overall.
PartResults(out, to, of, P) ==
  [ok |-> {t \in P : out[t] = "ok"},
   failed |-> {t \in P : out[t] = "failed"},
   crashed |-> {t \in P : out[t] = "crashed"},
   timed_out |-> (to \cap P # {}),
   overall_fail |-> (of \cap P # {})]

\* s without its i-th element.
Drop(s, i) == SubSeq(s, 1, i - 1) \o SubSeq(s, i + 1, Len(s))

InitMerge ==
  /\ options = [test_suite |-> None, gtest_filter |-> NoFilter,
                rebaseline |-> FALSE, performance_test |-> FALSE,
                use_emulator |-> 0, fast_and_loose |-> FALSE,
                repeat |-> DefaultRepeat]
  /\ all_test_suites = << >>
  /\ idx = 1
  /\ failures = 0
  /\ pc = "merge"
  /\ attached_devices = << >>
  /\ buildbot_emulators = << >>
  /\ test_results = EmptyResults
  /\ running = {}
  /\ disabled = [s \in Suites |-> {}]
  /\ disabled0 = disabled
  /\ repeat_given = options.repeat
  /\ log = << >>
  /\ repeat0 = options.repeat
  /\ fal0 = options.fast_and_loose
  /\ earlier_failed = FALSE
  /\ path = "none"
  /\ shard_input = << >>
  /\ shards = << >>
  /\ ran_on = {}
  /\ wrote = << >>
  /\ suite_path = "unchecked"
  /\ sharder_all_tests = << >>
  /\ writes = [s \in Suites |-> 0]
  /\ finals = << >>
  /\ nodev_seen = FALSE
  /\ attempts = 0
  /\ reruns = 0
  /\ \E L \in 0..MaxTests, N \in 1..MaxDevices :
       LET S == Range(TestList(L)) IN
       \E out \in [S -> Outcomes], to \in SUBSET S, of \in SUBSET S,
          shard_of \in [S -> 1..N] :
         /\ m_whole = PartResults(out, to, of, S)
         /\ m_pool = [i \in 1..N |->
                        PartResults(out, to, of,
                                    {t \in S : shard_of[t] = i})]
  /\ m_pad = FALSE

\* Two partial results of the pool are replaced by their merge.
MergeTwo ==
  /\ pc = "merge"
  /\ \E i, j \in 1..Len(m_pool) :
       /\ i # j
       /\ m_pool' = Append(Drop(Drop(m_pool, Max(i, j)), Min(i, j)),
                           Merge(m_pool[i], m_pool[j]))
  /\ UNCHANGED << dispatch_vars, m_whole, m_pad >>

\* An empty TestResults joins the pool (a runner that had no test to run).
MergeEmpty ==
  /\ pc = "merge"
  /\ ~m_pad
  /\ m_pool' = Append(m_pool, EmptyResults)
  /\ m_pad' = TRUE
  /\ UNCHANGED << dispatch_vars, m_whole >>

NextMerge ==
  \/ MergeTwo
  \/ MergeEmpty

SpecMerge == InitMerge /\ [][NextMerge]_vars

\* ============================================================ properties
InAttempt == pc \in {"launch", "confirm", "enumerate", "check", "shutdown"}

\* The call of _RunATestSuite for the suite of `log` has returned to Dispatch.
CallOver == pc \in {"dispatch", "done"} /\ log # << >>

\* Every attempt of the current suite so far ran and reported timed_out.
AllTimedOut == \A i \in 1..Len(log) : log[i].outcome = "timed_out"

RECURSIVE SumFailed(_)
SumFailed(f) == IF f = << >> THEN 0 ELSE Head(f).nfailed + SumFailed(Tail(f))

RECURSIVE NoDevCount(_)
NoDevCount(f) ==
  IF f = << >> THEN 0
  ELSE (IF Head(f).nodev THEN 1 ELSE 0) + NoDevCount(Tail(f))

RECURSIVE SumLen(_)
SumLen(ss) == IF ss = << >> THEN 0 ELSE Len(Head(ss)) + SumLen(Tail(ss))

\* C1: a suite whose every attempt times out, started with retry budget
\* R >= 0 and fast_and_loose off, is attempted exactly R + 1 times: never
\* more while the call is under way, exactly R + 1 once it has returned;
\* the first attempt runs with fast_and_loose off and every later one with
\* it on.
C1_TimeoutRepeats ==
  (AllTimedOut /\ fal0 = FALSE /\ repeat0 >= 0) =>
    /\ Len(log) <= repeat0 + 1
    /\ \A i \in 1..Len(log) : log[i].fal = (i >= 2)
    /\ pc \in {"launch", "confirm", "enumerate", "check"}
         => Len(log) <= repeat0 /\ options.fast_and_loose = (Len(log) >= 1)
    /\ CallOver => Len(log) = repeat0 + 1

\* C1 witness: with the default budget, the call returned after three
\* attempts that all timed out.
C1_Witness ==
  /\ CallOver /\ AllTimedOut /\ fal0 = FALSE
  /\ repeat0 = DefaultRepeat
  /\ Len(log) = DefaultRepeat + 1

C3_NoAttemptAfterNoDevice == nodev_seen => ~InAttempt

\* C3 as amended: a suite that finds no device ends its own call only;
\* Dispatch goes on with the next suite, and when it returns every suite of
\* the batch has had its call.
C3_BatchGoesOn ==
  /\ pc = "dispatch" => idx = Len(finals) + 1
  /\ pc = "done" => Len(finals) = Len(all_test_suites)

\* C3 witness: the first suite found no device and the second one ran.
C3_Witness ==
  /\ pc = "done" /\ Len(finals) = 2
  /\ finals[1].nodev /\ ~finals[2].nodev

\* C4: with no device, _RunATestSuite returns at once: no runner ran, no
\* sharder, no disabled list written, options (repeat, fast_and_loose) as
\* they were, and control is back in Dispatch at the next suite.
C4_NoDeviceReturnsAtOnce ==
  [][(pc = "check" /\ attached_devices = << >>) =>
       /\ pc' = "dispatch" /\ idx' = idx + 1
       /\ options' = options
       /\ path' = "none" /\ ran_on' = {} /\ shards' = << >>
       /\ test_results' = EmptyResults
       /\ wrote' = << >> /\ writes' = writes /\ disabled' = disabled
       /\ Len(log') = Len(log) + 1]_vars

\* C4 witness: the second attempt of a suite found no device while repeats
\* were left.
C4_Witness ==
  /\ pc = "dispatch" /\ Len(log) = 2
  /\ log[2].outcome = "nodev"
  /\ options.repeat > 0

C6_ShardedIffManyDevicesNoFilterNoPerf ==
  pc = "shutdown" =>
    /\ path \in {"sharded", "single", "unrecognized"}
    /\ path = "sharded" <=>
         (/\ Len(attached_devices) > 1
          /\ options.gtest_filter = NoFilter
          /\ ~options.performance_test)
    /\ path = "sharded" => ran_on = 0..(Len(attached_devices) - 1)
    /\ path = "single" => ran_on = {0}
    /\ path = "unrecognized" => ran_on = {}

\* C6 witness: two devices, but a performance test: the single runner.
C6_Witness ==
  /\ pc = "shutdown" /\ path = "single"
  /\ Len(attached_devices) = 2
  /\ options.performance_test /\ options.gtest_filter = NoFilter

\* C7: when Dispatch has ended, by return or by an error, no emulator that
\* was launched is still up.
C7_EmulatorsShutDown == pc \in {"done", "raised"} => running = {}

\* C8 as stated: a suite's disabled list is written at most once in one
\* Dispatch, and by the runner of index 0.
C8_WrittenOncePerSuite ==
  /\ \A s \in Suites : writes[s] <= 1
  /\ \A i \in 1..Len(wrote) : wrote[i] = 0

\* C8 as amended: a suite's disabled list is written at most once in each
\* attempt of the suite, by the runner of index 0, and only during the
\* suite's own attempts.
C8_WrittenOncePerAttempt ==
  /\ [](/\ Len(wrote) <= 1
        /\ \A i \in 1..Len(wrote) : wrote[i] = 0
        /\ \A s \in Suites :
             s = options.test_suite => writes[s] <= Len(log))
  /\ [][\A s \in Suites :
          writes'[s] # writes[s] =>
            /\ s = options.test_suite /\ pc = "check"
            /\ writes'[s] = writes[s] + 1]_vars

\* C8 witness: the second sharded attempt of a suite wrote the list again.
C8_Witness ==
  /\ pc = "shutdown" /\ path = "sharded" /\ wrote = << 0 >>
  /\ writes[options.test_suite] = 2

\* C9 as stated: when rebaselining, after a run the suite's disabled list
\* is exactly the set of tests that failed in it.
C9_ListIsFailedSet ==
  (pc = "shutdown" /\ options.rebaseline /\ path \in {"single", "sharded"})
    => disabled[options.test_suite] = test_results.failed

\* C9 as amended: when rebaselining, after a run on the single-target path
\* the list is exactly the failed set (empty or not); after a sharded run
\* it is exactly the failed set when some test failed, and is left as it
\* was when none did.
C9_ListIsFailedSetUnlessShardedAndNoneFailed ==
  /\ []((pc = "shutdown" /\ options.rebaseline) =>
          /\ path = "single"
               => disabled[options.test_suite] = test_results.failed
          /\ (path = "sharded" /\ test_results.failed # {})
               => disabled[options.test_suite] = test_results.failed)
  /\ [][(/\ pc = "check" /\ pc' = "shutdown"
         /\ path' = "sharded" /\ test_results'.failed = {})
          => disabled' = disabled]_vars

\* C9 witness: a sharded rebaseline run in which no test failed, the list
\* still holding what it held before.
C9_Witness ==
  /\ pc = "shutdown" /\ options.rebaseline /\ path = "sharded"
  /\ test_results.failed = {}
  /\ disabled[options.test_suite] # {}

\* C10: without rebaseline no disabled list is ever written: every list is
\* what it was before Dispatch.
C10_NoWriteWithoutRebaseline ==
  ~options.rebaseline =>
    /\ disabled = disabled0
    /\ \A s \in Suites : writes[s] = 0
    /\ wrote = << >>

\* C10 witness: a batch without rebaseline ended after failed tests and a
\* repeat, the lists being non-empty.
C10_Witness ==
  /\ pc = "done" /\ ~options.rebaseline
  /\ Len(finals) = 2 /\ finals[1].nfailed > 0
  /\ Len(log) >= 2
  /\ \A s \in Suites : disabled0[s] # {}

\* C11: an attempt that has a device and whose suite path is not on disk
\* ends with the synthetic failure of that suite as its result, no runner
\* having run and no list written, whichever branch the devices and the
\* flags select.
C11_MissingSuiteIsSyntheticFailure ==
  (pc = "shutdown" /\ suite_path = "missing") =>
    /\ test_results = SyntheticFailure(options.test_suite)
    /\ ran_on = {}
    /\ wrote = << >>

\* C12: fast_and_loose never goes from on to off; it goes from off to on
\* only at the end of an attempt that timed out with repeats left, on the
\* way into the next attempt; so once an attempt ran with it on, every later
\* attempt of the suite does, and a suite that started with it on has it on
\* in every attempt.
C12_FastAndLooseMonotone ==
  /\ [](/\ \A i, j \in 1..Len(log) : (i <= j /\ log[i].fal) => log[j].fal
        /\ InAttempt /\ fal0 => options.fast_and_loose
        /\ \A i \in 1..Len(log) : fal0 => log[i].fal)
  /\ [][options.fast_and_loose => options'.fast_and_loose]_vars
  /\ [][(~options.fast_and_loose /\ options'.fast_and_loose) =>
          /\ pc = "shutdown" /\ test_results.timed_out /\ options.repeat # 0
          /\ options'.repeat = options.repeat - 1
          /\ pc' = Entry(options')]_vars

\* C12 witness: a repeat was taken in the first suite, and an attempt of
\* the second suite has run with fast_and_loose on.
C12_Witness ==
  /\ pc = "shutdown" /\ idx = 2
  /\ repeat0 < repeat_given
  /\ Len(log) = 1 /\ log[1].fal

RECURSIVE MergeAll(_)
MergeAll(rs) ==
  IF rs = << >> THEN EmptyResults ELSE Merge(Head(rs), MergeAll(Tail(rs)))

\* C13: Merge is commutative and associative on the partial results and
\* has the empty TestResults as identity; however the shards' results
\* are merged (in any order, two at a time, with or without an empty one
\* among them), what is in the pool merges to the three sets and the two
\* flags of one run over the same tests, and the last result left is that.
C13_MergeAnyOrder ==
  pc = "merge" =>
    /\ \A i, j \in 1..Len(m_pool) :
         Merge(m_pool[i], m_pool[j]) = Merge(m_pool[j], m_pool[i])
    /\ \A i, j, k \in 1..Len(m_pool) :
         Merge(Merge(m_pool[i], m_pool[j]), m_pool[k])
           = Merge(m_pool[i], Merge(m_pool[j], m_pool[k]))
    /\ \A i \in 1..Len(m_pool) :
         /\ Merge(EmptyResults, m_pool[i]) = m_pool[i]
         /\ Merge(m_pool[i], EmptyResults) = m_pool[i]
    /\ MergeAll(m_pool) = m_whole
    /\ Len(m_pool) = 1 => m_pool[1] = m_whole

\* C13 witness: the results of two shards and an empty one have been merged
\* into one, three tests in three different sets, a timeout in the run.
C13_Witness ==
  /\ pc = "merge" /\ Len(m_pool) = 1 /\ m_pad
  /\ m_whole.ok # {} /\ m_whole.failed # {} /\ m_whole.crashed # {}
  /\ m_whole.timed_out /\ ~m_whole.overall_fail

\* C14: one attempt at a time, suites in the order of all_test_suites: an
\* attempt under way is that of the suite at idx, every earlier suite's call
\* having returned; an attempt is entered only from Dispatch's loop or from
\* the end of an attempt that has its result, and at its entry no emulator
\* is up and no result is held; the emulators up during an attempt are
\* those the attempt launched.
C14_AttemptsInSequence ==
  /\ [](/\ InAttempt =>
             /\ idx \in 1..Len(all_test_suites)
             /\ options.test_suite = all_test_suites[idx]
             /\ Len(finals) = idx - 1
             /\ running \subseteq {buildbot_emulators[i].n :
                                     i \in 1..Len(buildbot_emulators)}
        /\ (pc \in {"launch", "enumerate"} /\ buildbot_emulators = << >>) =>
             /\ running = {}
             /\ test_results = EmptyResults
             /\ path = "none")
  /\ [][(pc # "launch" /\ pc' \in {"launch", "enumerate"}) =>
          /\ \/ pc = "dispatch" /\ log' = << >>
             \/ /\ pc = "shutdown" /\ path # "none"
                /\ log' = log /\ Len(log) >= 1 /\ idx' = idx
          /\ running' = {}
          /\ buildbot_emulators' = << >>]_vars
  /\ [][idx' = idx \/ (idx' = idx + 1 /\ pc' = "dispatch")]_vars

\* C14 witness: the second suite's second attempt is entered in emulator
\* mode, the emulators of its first attempt shut down.
C14_Witness ==
  /\ pc = "launch" /\ buildbot_emulators = << >>
  /\ options.use_emulator = MaxEmulators
  /\ idx = 2 /\ Len(log) = 1
  /\ running = {}

\* C16: for any integer --repeat, a repeat is taken only while the budget
\* is above zero: the budget is below what Dispatch was given only if it is
\* still at least zero, and a suite is in an attempt after its first only
\* if it started with a budget above zero.
C16_RepeatOnlyWhilePositive ==
  /\ options.repeat < repeat_given => options.repeat >= 0
  /\ (InAttempt /\ pc # "shutdown" /\ Len(log) >= 1) => repeat0 > 0

\* C17: in an attempt with --emulator N >= 1 the emulators are launched
\* one after another, numbered in launch order, each with the attempt's
\* fast_and_loose, and only the first launch kills the emulators found
\* up; the devices are those emulators' devices in launch order and
\* GetAttachedDevices is not called; none is confirmed before all N are
\* launched, and no runner or sharder has started before all N are
\* confirmed.  With N = 0 no emulator is launched and the devices are those
\* GetAttachedDevices reported.
C17_EmulatorLaunches ==
  LET N == options.use_emulator
      E == buildbot_emulators
      confirmed == {i \in 1..Len(E) : E[i].confirmed}
  IN  /\ (InAttempt /\ N >= 1) =>
           /\ pc # "enumerate"
           /\ Len(E) <= N /\ Len(attached_devices) = Len(E)
           /\ \A i \in 1..Len(E) :
                /\ E[i].n = i - 1
                /\ attached_devices[i] = EmulatorDevice(i - 1)
                /\ E[i].kill_all_emulators = (i = 1)
                /\ E[i].fast_and_loose = options.fast_and_loose
           /\ running = {i - 1 : i \in 1..Len(E)}
           /\ pc = "launch" => Len(E) < N /\ confirmed = {}
           /\ pc = "confirm" => Len(E) = N /\ confirmed = {}
           /\ pc \in {"check", "shutdown"} => Len(E) = N /\ confirmed = 1..N
           /\ path # "none" => Len(E) = N /\ confirmed = 1..N
      /\ (InAttempt /\ N = 0) =>
           /\ pc \notin {"launch", "confirm"}
           /\ E = << >> /\ running = {}
           /\ pc = "enumerate" => attached_devices = << >>
           /\ pc \in {"check", "shutdown"} =>
                \E k \in 0..MaxDevices : attached_devices = PhysicalDevices(k)

\* C17 witness: the second attempt of a suite, in emulator mode with the
\* largest count, has run its tests on the emulators it launched.
C17_Witness ==
  /\ pc = "shutdown" /\ path = "sharded"
  /\ options.use_emulator = MaxEmulators
  /\ Len(log) = 2
  /\ running = 0..(MaxEmulators - 1)

\* C18: in a sharded attempt without rebaseline, no shard holds a test that
\* matches a pattern of the suite's disabled list: the sharder's tests are
\* the tests of all_tests that match no pattern, each once and in the order
\* of all_tests, and the shards are taken from them;
\* with rebaseline the sharder's tests are all_tests as they are.
C18_DisabledTestsNotSharded ==
  path = "sharded" =>
    LET all == sharder_all_tests
        D == disabled[options.test_suite]
        Disabled(t) == \E p \in D : fnmatch(t, p)
        sharded == UNION {Range(shards[i]) : i \in 1..Len(shards)}
    IN  /\ ~options.rebaseline =>
             /\ \A t \in sharded : ~Disabled(t)
             /\ Range(shard_input) = {t \in Range(all) : ~Disabled(t)}
             /\ \A i, j \in 1..Len(shard_input) :
                  i < j => \E a, b \in 1..Len(all) :
                             /\ a < b
                             /\ all[a] = shard_input[i]
                             /\ all[b] = shard_input[j]
        /\ options.rebaseline => shard_input = all
        /\ sharded \subseteq Range(shard_input)

\* C18 witness: three tests, the first one disabled, two devices: the two
\* others are sharded, one to each device.
C18_Witness ==
  /\ path = "sharded" /\ ~options.rebaseline
  /\ disabled[options.test_suite] = {Test(1)}
  /\ sharder_all_tests = TestList(3)
  /\ shards = << <<Test(2)>>, <<Test(3)>> >>

AttemptSpan == MaxEmulators + 4

\* How far control is from the end of the attempt.
PcRank ==
  CASE pc = "shutdown" -> 1
    [] pc = "check" -> 2
    [] pc = "confirm" -> 3
    [] pc = "enumerate" -> 3
    [] pc = "launch" -> 3 + options.use_emulator - Len(buildbot_emulators)
    [] pc = "dispatch" -> AttemptSpan
    [] OTHER -> 0

\* A bound on the steps Dispatch can still take: the suites not yet
\* returned and the repeats left, an attempt's span for each, and the rest
\* of the attempt under way.
Variant ==
  CASE pc \in {"done", "raised"} -> 0
    [] pc = "start" -> (MaxSuites + MaxRepeat + 1) * AttemptSpan + 1
    [] OTHER -> (Len(all_test_suites) - idx + 1 + options.repeat) * AttemptSpan
                  + PcRank

\* C20: started with R >= 0 repeats, Dispatch takes at most R repeats over
\* all its suites and enters _RunATestSuite at most S + R times for S
\* suites: options.repeat is R less the repeats taken, never goes up and
\* never below 0; an attempt that times out with options.repeat at 0
\* returns to Dispatch; and Dispatch ends: every step brings a bound on the
\* remaining steps down, and before the end a step can always be taken.
C20_SharedBudgetTerminates ==
  /\ [](/\ options.repeat >= 0
        /\ reruns = repeat_given - options.repeat
        /\ reruns <= repeat_given
        /\ pc # "start" => attempts <= Len(all_test_suites) + repeat_given
        /\ attempts = reruns + (IF InAttempt \/ pc = "raised"
                                  THEN idx ELSE idx - 1)
        /\ InAttempt =>
             Len(log) + (IF pc = "shutdown" THEN 0 ELSE 1)
               = 1 + repeat0 - options.repeat
        /\ (CallOver /\ log[Len(log)].outcome = "timed_out")
             => options.repeat = 0
        /\ Variant >= 0
        /\ pc \notin {"done", "raised"} => ENABLED Next)
  /\ [][options'.repeat <= options.repeat]_vars
  /\ [][(pc = "shutdown" /\ test_results.timed_out /\ options.repeat = 0)
          => pc' = "dispatch" /\ idx' = idx + 1]_vars
  /\ [][Variant' < Variant]_vars

\* C20 witness: Dispatch is given the default repeats and two suites; the
\* first suite takes both repeats, the second times out once and gets no
\* repeat, and Dispatch returns after 2 + 2 attempts.
C20_Witness ==
  /\ pc = "done" /\ Len(finals) = 2
  /\ repeat_given = DefaultRepeat /\ reruns = DefaultRepeat
  /\ attempts = 2 + DefaultRepeat
  /\ repeat0 = 0 /\ Len(log) = 1 /\ log[1].outcome = "timed_out"

====
